---- MODULE Spec2Model ----
(***************************************************************************)
(* Model of src/vicsetup/libvicsetup/integrity.c (sgx-lkl, vicsetup):      *)
(* the dm-integrity superblock reader, its diagnostic dump, and the        *)
(* registry of integrity schemes.                                          *)
(*                                                                         *)
(* Bytes are integers 0..255.  A C string pointer is <<>> (NULL) or <<s>>. *)
(* A 64-bit unsigned value that does not fit a model integer (the expanded *)
(* powers of two printed by the dump) is the set of its one-bits, so 2^v   *)
(* is {v} and 0 is {}.                                                     *)
(***************************************************************************)
EXTENDS Integers, Sequences, FiniteSets, TLC

VARIABLES
    dev,      \* the vic_blockdev_t handed to the reader
    sbMem,    \* the caller's vic_integrity_sb_t, as its bytes in memory
    result,   \* the vic_result_t the last call returned
    reads,    \* block numbers passed to vic_blockdev_get, in call order
    out,      \* lines printed on stdout
    last,     \* the last call: its arguments and the state it started from
    ncalls,   \* calls made so far
    calls,    \* the last call of each registry lookup: <<>> or <<[arg, ret]>>
    client    \* the scheme name and the scheme value the registry's client holds

vars == <<dev, sbMem, result, reads, out, last, ncalls, calls, client>>

----------------------------------------------------------------------------
(* Bounds of the model. *)

\* Calls of the reader and the dump in one run.
MaxCalls == 2

----------------------------------------------------------------------------
(* Constants of the program. *)

VIC_SECTOR_SIZE == 512

\* static uint8_t _magic[8] = { 'i', 'n', 't', 'e', 'g', 'r', 't', '\0' };
_magic == <<105, 110, 116, 101, 103, 114, 116, 0>>

\* (size_t)-1, the "unknown" value of the name-keyed tag size lookup.
SIZE_T_MINUS_ONE == -1

\* vic_integrity_sb_t: the fields in declaration order, with the byte offset
\* and width of each in the structure.
SbFields ==
    << [name |-> "magic",                      off |-> 0,  width |-> 8],
       [name |-> "version",                    off |-> 8,  width |-> 1],
       [name |-> "log2_interleave_sectors",    off |-> 9,  width |-> 1],
       [name |-> "integrity_tag_size",         off |-> 10, width |-> 2],
       [name |-> "journal_sections",           off |-> 12, width |-> 4],
       [name |-> "provided_data_sectors",      off |-> 16, width |-> 8],
       [name |-> "flags",                      off |-> 24, width |-> 4],
       [name |-> "log2_sectors_per_block",     off |-> 28, width |-> 1],
       [name |-> "log2_blocks_per_bitmap_bit", off |-> 29, width |-> 1],
       [name |-> "recalc_sector",              off |-> 32, width |-> 8] >>

\* sizeof(vic_integrity_sb_t)
SizeofSb == 40

FieldNames == {SbFields[i].name : i \in 1..Len(SbFields)}

FieldDesc(f) == CHOOSE d \in {SbFields[i] : i \in 1..Len(SbFields)} : d.name = f

\* sb->f: the bytes of field f of a structure held in memory as bytes.
Field(mem, f) == SubSeq(mem, FieldDesc(f).off + 1, FieldDesc(f).off + FieldDesc(f).width)

Log2Fields == {"log2_interleave_sectors", "log2_sectors_per_block",
               "log2_blocks_per_bitmap_bit"}

----------------------------------------------------------------------------
(* libc *)

\* memcmp(a, b, n): 0 when the first n bytes agree, else the difference at
\* the first byte that differs.
Memcmp(a, b, n) ==
    IF \A i \in 1..n : a[i] = b[i]
    THEN 0
    ELSE LET k == CHOOSE i \in 1..n : a[i] # b[i] /\ \A j \in 1..(i - 1) : a[j] = b[j]
         IN a[k] - b[k]

\* memcpy(dst, src, n): dst with its first n bytes replaced by those of src.
Memcpy(dst, src, n) == [i \in 1..Len(dst) |-> IF i <= n THEN src[i] ELSE dst[i]]

\* strcmp(a, b) on two non-null strings.
Strcmp(a, b) == IF a = b THEN 0 ELSE 1

----------------------------------------------------------------------------
(* The block device (external collaborator): what the reader consumes. *)

\* vic_blockdev_get_block_size(device, &block_size): the result, and the
\* block size it stores on success.
vic_blockdev_get_block_size(device) ==
    [rc |-> device.bsResult, size |-> device.blockSize]

\* The bytes of a block of the device.  A device keeps, for each block, the
\* 8 bytes it starts with, the bytes at the offsets of the three log2 fields,
\* and the pattern k of its other bytes: the byte at index i is (i * k) % 256.
BlockBytes(b) ==
    [i \in 1..VIC_SECTOR_SIZE |->
        IF i <= 8 THEN b.magic[i]
        ELSE IF i = 10 THEN b.e1
        ELSE IF i = 29 THEN b.e2
        ELSE IF i = 30 THEN b.e3
        ELSE (i * b.k) % 256]

\* vic_blockdev_get(device, blkno, blk, nblocks): 0 and the block read, or
\* non-zero on a device error or a block past the end of the device.
vic_blockdev_get(device, blkno, nblocks) ==
    IF device.ioError \/ blkno + nblocks > Len(device.blocks)
    THEN [rc |-> -1, blk |-> <<>>]
    ELSE [rc |-> 0, blk |-> BlockBytes(device.blocks[blkno + 1])]

----------------------------------------------------------------------------
(* vic_read_integrity_sb *)

\* const uint64_t blkno = offset / VIC_SECTOR_SIZE;
Blkno(offset) == offset \div VIC_SECTOR_SIZE

\* A faulty comparison: the magic taken as a string, without its trailing NUL.
MagicMismatch_WithoutNul(mem) ==
    Memcmp(Field(mem, "magic"), _magic, FieldDesc("magic").width - 1) # 0

\* memcmp(sb->magic, _magic, sizeof(sb->magic)) != 0
MagicMismatch(mem) ==
    Memcmp(Field(mem, "magic"), _magic, FieldDesc("magic").width) # 0

\* A faulty copy: sizeof applied to the pointer sb, 8 bytes.
CopySb_SizeofPointer(sb, blk) == Memcpy(sb, blk, 8)

\* memcpy(sb, &blk, sizeof(vic_integrity_sb_t));
CopySb(sb, blk) == Memcpy(sb, blk, SizeofSb)

\* A faulty reader: the sector is read before the block size is checked.
vic_read_integrity_sb_ReadFirst(device, offset, sb) ==
    LET blkno == offset \div VIC_SECTOR_SIZE
        bs    == vic_blockdev_get_block_size(device)
        g     == vic_blockdev_get(device, blkno, 1)
    IN  IF bs.rc # "VIC_OK"
        THEN [result |-> bs.rc, sb |-> sb, gets |-> <<>>]
        ELSE IF g.rc # 0
        THEN [result |-> "VIC_FAILED", sb |-> sb, gets |-> <<blkno>>]
        ELSE IF bs.size # VIC_SECTOR_SIZE
        THEN [result |-> "VIC_BAD_BLOCK_SIZE", sb |-> sb, gets |-> <<blkno>>]
        ELSE LET copied == Memcpy(sb, g.blk, SizeofSb)
             IN  [result |-> IF Memcmp(Field(copied, "magic"), _magic, 8) # 0
                             THEN "VIC_NOT_FOUND" ELSE "VIC_OK",
                  sb |-> copied, gets |-> <<blkno>>]

\* The whole function: the result returned, the caller's structure after the
\* call, and the block numbers it asked the device for.
vic_read_integrity_sb(device, offset, sb) ==
    LET blkno == Blkno(offset)
        bs    == vic_blockdev_get_block_size(device)
    IN  IF bs.rc # "VIC_OK"
        THEN [result |-> bs.rc, sb |-> sb, gets |-> <<>>]
        ELSE IF bs.size # VIC_SECTOR_SIZE
        THEN [result |-> "VIC_BAD_BLOCK_SIZE", sb |-> sb, gets |-> <<>>]
        ELSE LET g == vic_blockdev_get(device, blkno, 1)
             IN  IF g.rc # 0
                 THEN [result |-> "VIC_FAILED", sb |-> sb, gets |-> <<blkno>>]
                 ELSE LET copied == CopySb(sb, g.blk)
                      IN  IF MagicMismatch(copied)
                          THEN [result |-> "VIC_NOT_FOUND", sb |-> copied,
                                gets |-> <<blkno>>]
                          ELSE [result |-> "VIC_OK", sb |-> copied,
                                gets |-> <<blkno>>]

----------------------------------------------------------------------------
(* vic_dump_integrity_sb *)

\* x << n in a word of w bits, on the set of one-bits.
Shl(bits, n, w) == {b + n : b \in bits} \cap (0..(w - 1))

\* Conversion of a 32-bit int to uint64_t.
SignExtend(bits) == IF 31 \in bits THEN bits \cup (32..63) ELSE bits

\* static uint64_t _inverse_log2(uint8_t log) { return 1 << (uint64_t)log; }
\* The left operand is the int 1, so the shift is a 32-bit int shift whose
\* result is then converted to uint64_t.  It is defined for log < 31.  For
\* log >= 31 the behaviour is undefined; the outcomes are those of a 32-bit
\* shift with the count taken modulo 32 (sign-extended), of a 64-bit shift
\* with the count taken modulo 64, and, for a count of 32 or more, of a
\* shift that clears the word.
_inverse_log2(log) ==
    IF log < 31
    THEN {SignExtend(Shl({0}, log, 32))}
    ELSE {SignExtend(Shl({0}, log % 32, 32)), Shl({0}, log % 64, 64)}
         \cup (IF log >= 32 THEN {{}} ELSE {})

\* printf("%s", bytes): the bytes before the first NUL.
CString(bytes) ==
    IF \E i \in 1..Len(bytes) : bytes[i] = 0
    THEN SubSeq(bytes, 1, (CHOOSE i \in 1..Len(bytes) :
                             bytes[i] = 0 /\ \A j \in 1..(i - 1) : bytes[j] # 0) - 1)
    ELSE bytes

\* One printed line: the field it reports, its stored bytes, the text of a
\* %s conversion and the expanded value of a log2 field (<<>> when none).
Line(f, raw, text, exp) == [field |-> f, raw |-> raw, text |-> text, exp |-> exp]

PlainLine(mem, f) == Line(f, Field(mem, f), <<>>, <<>>)

\* The printf calls of the function, in order; e1, e2, e3 are the values the
\* three _inverse_log2 calls returned.
Report(mem, e1, e2, e3) ==
    << Line("vic_luks_integrity_sb", <<>>, <<>>, <<>>),
       Line("{", <<>>, <<>>, <<>>),
       Line("magic", Field(mem, "magic"), CString(Field(mem, "magic")), <<>>),
       PlainLine(mem, "version"),
       Line("log2_interleave_sectors",
            Field(mem, "log2_interleave_sectors"), <<>>, <<e1>>),
       PlainLine(mem, "integrity_tag_size"),
       PlainLine(mem, "journal_sections"),
       PlainLine(mem, "provided_data_sectors"),
       PlainLine(mem, "flags"),
       Line("log2_sectors_per_block",
            Field(mem, "log2_sectors_per_block"), <<>>, <<e2>>),
       Line("log2_blocks_per_bitmap_bit",
            Field(mem, "log2_blocks_per_bitmap_bit"), <<>>, <<e3>>),
       PlainLine(mem, "recalc_sector"),
       Line("}", <<>>, <<>>, <<>>) >>

\* A faulty check: only a NULL structure is refused.
DumpRejects_NullOnly(null, mem) == null

\* if (!sb || memcmp(sb->magic, _magic, sizeof(sb->magic)) != 0)
DumpRejects(null, mem) == null \/ MagicMismatch(mem)

\* The whole function: the set of its outcomes (result and lines printed)
\* for a pointer that is NULL or points at mem.
vic_dump_integrity_sb(null, mem) ==
    IF DumpRejects(null, mem)
    THEN {[result |-> "VIC_BAD_PARAMETER", lines |-> <<>>]}
    ELSE {[result |-> "VIC_OK", lines |-> Report(mem, e1, e2, e3)] :
            e1 \in _inverse_log2(Field(mem, "log2_interleave_sectors")[1]),
            e2 \in _inverse_log2(Field(mem, "log2_sectors_per_block")[1]),
            e3 \in _inverse_log2(Field(mem, "log2_blocks_per_bitmap_bit")[1])}

----------------------------------------------------------------------------
(* The integrity scheme registry *)

\* vic_integrity_t: the six declared schemes.
Declared == {"VIC_INTEGRITY_NONE", "VIC_INTEGRITY_HMAC_AEAD",
             "VIC_INTEGRITY_HMAC_SHA256", "VIC_INTEGRITY_HMAC_SHA512",
             "VIC_INTEGRITY_CMAC_AES", "VIC_INTEGRITY_POLY1305"}

\* A string pointer: NULL, or a pointer to the string s.
NULL == <<>>
Str(s) == <<s>>

\* A faulty name lookup: the name of HMAC-SHA512 is that of HMAC-SHA256.
vic_integrity_name_Sha512AsSha256(integrity) ==
    CASE integrity = "VIC_INTEGRITY_NONE"        -> Str("none")
      [] integrity = "VIC_INTEGRITY_HMAC_AEAD"   -> Str("aead")
      [] integrity = "VIC_INTEGRITY_HMAC_SHA256" -> Str("hmac(sha256)")
      [] integrity = "VIC_INTEGRITY_HMAC_SHA512" -> Str("hmac(sha256)")
      [] integrity = "VIC_INTEGRITY_CMAC_AES"    -> Str("cmac(aes)")
      [] integrity = "VIC_INTEGRITY_POLY1305"    -> Str("poly1305")
      [] OTHER                                   -> NULL

vic_integrity_name(integrity) ==
    CASE integrity = "VIC_INTEGRITY_NONE"        -> Str("none")
      [] integrity = "VIC_INTEGRITY_HMAC_AEAD"   -> Str("aead")
      [] integrity = "VIC_INTEGRITY_HMAC_SHA256" -> Str("hmac(sha256)")
      [] integrity = "VIC_INTEGRITY_HMAC_SHA512" -> Str("hmac(sha512)")
      [] integrity = "VIC_INTEGRITY_CMAC_AES"    -> Str("cmac(aes)")
      [] integrity = "VIC_INTEGRITY_POLY1305"    -> Str("poly1305")
      [] OTHER                                   -> NULL

\* A faulty tag size lookup: the case of Poly1305 is missing.
vic_integrity_tag_size_NoPoly1305(integrity) ==
    CASE integrity = "VIC_INTEGRITY_NONE"        -> 0
      [] integrity = "VIC_INTEGRITY_HMAC_AEAD"   -> 16
      [] integrity = "VIC_INTEGRITY_HMAC_SHA256" -> 32
      [] integrity = "VIC_INTEGRITY_HMAC_SHA512" -> 64
      [] integrity = "VIC_INTEGRITY_CMAC_AES"    -> 16
      [] OTHER                                   -> 0

vic_integrity_tag_size(integrity) ==
    CASE integrity = "VIC_INTEGRITY_NONE"        -> 0
      [] integrity = "VIC_INTEGRITY_HMAC_AEAD"   -> 16
      [] integrity = "VIC_INTEGRITY_HMAC_SHA256" -> 32
      [] integrity = "VIC_INTEGRITY_HMAC_SHA512" -> 64
      [] integrity = "VIC_INTEGRITY_CMAC_AES"    -> 16
      [] integrity = "VIC_INTEGRITY_POLY1305"    -> 16
      [] OTHER                                   -> 0

\* str is not NULL (strcmp dereferences it).
vic_integrity_enum(str) ==
    IF Strcmp(str[1], "aead") = 0 THEN "VIC_INTEGRITY_HMAC_AEAD"
    ELSE IF Strcmp(str[1], "hmac(sha256)") = 0 THEN "VIC_INTEGRITY_HMAC_SHA256"
    ELSE IF Strcmp(str[1], "hmac(sha512)") = 0 THEN "VIC_INTEGRITY_HMAC_SHA512"
    ELSE IF Strcmp(str[1], "cmac(aes)") = 0 THEN "VIC_INTEGRITY_CMAC_AES"
    ELSE IF Strcmp(str[1], "poly1305") = 0 THEN "VIC_INTEGRITY_POLY1305"
    ELSE "VIC_INTEGRITY_NONE"

vic_integrity_tag_size_from_str(integrity) ==
    IF integrity = NULL THEN SIZE_T_MINUS_ONE
    ELSE IF Strcmp(integrity[1], "aead") = 0 THEN 16
    ELSE IF Strcmp(integrity[1], "hmac(sha256)") = 0 THEN 32
    ELSE IF Strcmp(integrity[1], "hmac(sha512)") = 0 THEN 64
    ELSE IF Strcmp(integrity[1], "cmac(aes)") = 0 THEN 16
    ELSE IF Strcmp(integrity[1], "poly1305") = 0 THEN 16
    ELSE SIZE_T_MINUS_ONE

vic_integrity_key_size(integrity) ==
    CASE integrity = "VIC_INTEGRITY_NONE"        -> 0
      [] integrity = "VIC_INTEGRITY_HMAC_AEAD"   -> 0
      [] integrity = "VIC_INTEGRITY_HMAC_SHA256" -> 32
      [] integrity = "VIC_INTEGRITY_HMAC_SHA512" -> 64
      [] integrity = "VIC_INTEGRITY_CMAC_AES"    -> 0
      [] integrity = "VIC_INTEGRITY_POLY1305"    -> 0
      [] OTHER                                   -> 0

\* A faulty key size lookup: (size_t)-1 for a null name, as the tag size
\* lookup has it.
vic_integrity_key_size_from_str_NullUnknown(integrity) ==
    IF integrity = NULL THEN SIZE_T_MINUS_ONE
    ELSE IF Strcmp(integrity[1], "hmac(sha256)") = 0 THEN 32
    ELSE IF Strcmp(integrity[1], "hmac(sha512)") = 0 THEN 64
    ELSE 0

vic_integrity_key_size_from_str(integrity) ==
    IF integrity = NULL THEN 0
    ELSE IF Strcmp(integrity[1], "aead") = 0 THEN 0
    ELSE IF Strcmp(integrity[1], "hmac(sha256)") = 0 THEN 32
    ELSE IF Strcmp(integrity[1], "hmac(sha512)") = 0 THEN 64
    ELSE IF Strcmp(integrity[1], "cmac(aes)") = 0 THEN 0
    ELSE IF Strcmp(integrity[1], "poly1305") = 0 THEN 0
    ELSE 0

----------------------------------------------------------------------------
(* Inputs *)

\* Scheme values passed to the lookups: the declared ones and one value of
\* the enumeration type that names no scheme.
SchemeArgs == Declared \cup {"(vic_integrity_t)6"}

CanonicalNames == {"none", "aead", "hmac(sha256)", "hmac(sha512)", "cmac(aes)",
                   "poly1305"}

\* Names passed to the lookups: the canonical ones, an unknown one, and one
\* that differs from a canonical name in case only.
NameArgs == {Str(n) : n \in CanonicalNames \cup {"rot13", "AEAD"}}

\* Stored exponents of the log2 fields.
Exponents == {0, 7, 30, 31, 32, 63, 64, 255}

\* A sector on a device: the given magic, the three log2 fields, and every
\* other byte a value that depends on its position (k picks the pattern).
SectorImage(magic, e1, e2, e3, k) ==
    [magic |-> magic, e1 |-> e1, e2 |-> e2, e3 |-> e3, k |-> k]

\* The magic with one byte altered.
AlteredMagics ==
    {[_magic EXCEPT ![i] = b] : i \in 1..8, b \in {0, 255}}
        \ {_magic}

ValidSectors ==
    {SectorImage(_magic, e, 0, 3, 7) : e \in Exponents}
    \cup {SectorImage(_magic, 7, e, 3, 7) : e \in Exponents}
    \cup {SectorImage(_magic, 7, 0, e, 7) : e \in Exponents}

InvalidSectors ==
    {SectorImage(m, 7, 0, 3, 7) : m \in AlteredMagics}
    \cup {SectorImage(<<0, 0, 0, 0, 0, 0, 0, 0>>, 0, 0, 0, 0)}

OtherSector == SectorImage(_magic, 1, 2, 4, 11)

GoodDevice(blocks) ==
    [bsResult |-> "VIC_OK", blockSize |-> VIC_SECTOR_SIZE, ioError |-> FALSE,
     blocks |-> blocks]

Devices ==
    {GoodDevice(<<s, OtherSector>>) : s \in ValidSectors \cup InvalidSectors}
    \cup {GoodDevice(<<OtherSector, s>>) : s \in ValidSectors \cup InvalidSectors}
    \cup {[GoodDevice(<<OtherSector, OtherSector>>) EXCEPT !.bsResult = r] :
            r \in {"VIC_FAILED", "VIC_BAD_PARAMETER"}}
    \cup {[GoodDevice(<<OtherSector, OtherSector>>) EXCEPT !.blockSize = b] :
            b \in {0, 511, 513, 1024, 4096}}
    \cup {[GoodDevice(<<OtherSector, OtherSector>>) EXCEPT !.ioError = TRUE]}

\* Byte offsets passed to the reader: in block 0, in block 1, past the end.
Offsets == {0, 511, 512, 1023, 1024}

\* What the caller's structure holds before the first call.
InitialSbs ==
    {[i \in 1..SizeofSb |-> 0],
     [i \in 1..SizeofSb |-> IF i <= 8 THEN _magic[i] ELSE IF i \in {10, 29, 30} THEN 5 ELSE 238]}

----------------------------------------------------------------------------
(* The superblock reader and the dump, called by a client. *)

NoCall == [op |-> "none", offset |-> 0, null |-> FALSE, sbBefore |-> <<>>,
           nreads |-> 0, nout |-> 0]

LookupNames == {"vic_integrity_name", "vic_integrity_tag_size",
                "vic_integrity_enum", "vic_integrity_tag_size_from_str",
                "vic_integrity_key_size", "vic_integrity_key_size_from_str"}

NoLookups == [f \in LookupNames |-> <<>>]

Init ==
    /\ dev \in Devices
    /\ sbMem \in InitialSbs
    /\ result = "none"
    /\ reads = <<>>
    /\ out = <<>>
    /\ last = NoCall
    /\ ncalls = 0
    /\ calls = NoLookups
    /\ client = [name |-> NULL, scheme |-> "VIC_INTEGRITY_NONE"]

\* result = vic_read_integrity_sb(dev, offset, &sb)
ReadCall(offset) ==
    /\ ncalls < MaxCalls
    /\ LET r == vic_read_integrity_sb(dev, offset, sbMem)
       IN  /\ sbMem' = r.sb
           /\ result' = r.result
           /\ reads' = reads \o r.gets
    /\ last' = [op |-> "read", offset |-> offset, null |-> FALSE,
                sbBefore |-> sbMem, nreads |-> Len(reads), nout |-> Len(out)]
    /\ ncalls' = ncalls + 1
    /\ UNCHANGED <<dev, out, calls, client>>

\* result = vic_dump_integrity_sb(null ? NULL : &sb)
DumpCall(null) ==
    /\ ncalls < MaxCalls
    /\ \E o \in vic_dump_integrity_sb(null, sbMem) :
           /\ result' = o.result
           /\ out' = out \o o.lines
    /\ last' = [op |-> "dump", offset |-> 0, null |-> null,
                sbBefore |-> sbMem, nreads |-> Len(reads), nout |-> Len(out)]
    /\ ncalls' = ncalls + 1
    /\ UNCHANGED <<dev, sbMem, reads, calls, client>>

Next ==
    \/ \E offset \in Offsets : ReadCall(offset)
    \/ \E null \in BOOLEAN : DumpCall(null)

Spec == Init /\ [][Next]_vars

---------------------------------------------------------------------------------------------------------------------------------------------------
(* The registry lookups, called by a client that holds a scheme name read  *)
(* from its configuration and a scheme value read from volume metadata,    *)
(* and that passes these, or what an earlier lookup returned, to the       *)
(* lookups.                                                                *)

InitRegistry ==
    /\ dev = GoodDevice(<<>>)
    /\ sbMem = <<>>
    /\ result = "none"
    /\ reads = <<>>
    /\ out = <<>>
    /\ last = NoCall
    /\ ncalls = 0
    /\ calls = NoLookups
    /\ client \in [name : NameArgs \cup {NULL}, scheme : SchemeArgs]

\* What the lookup f returned, if it was called.
Returned(f) == {calls[f][i].ret : i \in 1..Len(calls[f])}

\* Scheme values and names the client has in hand.
SchemesInHand == {client.scheme} \cup Returned("vic_integrity_enum")
NamesInHand == {client.name} \cup Returned("vic_integrity_name")

Lookup(f, arg, ret) ==
    /\ calls' = [calls EXCEPT ![f] = <<[arg |-> arg, ret |-> ret]>>]
    /\ UNCHANGED <<dev, sbMem, result, reads, out, last, ncalls, client>>

NameCall(s) == Lookup("vic_integrity_name", s, vic_integrity_name(s))

TagSizeCall(s) == Lookup("vic_integrity_tag_size", s, vic_integrity_tag_size(s))

KeySizeCall(s) == Lookup("vic_integrity_key_size", s, vic_integrity_key_size(s))

EnumCall(n) == Lookup("vic_integrity_enum", n, vic_integrity_enum(n))

TagSizeFromStrCall(n) ==
    Lookup("vic_integrity_tag_size_from_str", n, vic_integrity_tag_size_from_str(n))

KeySizeFromStrCall(n) ==
    Lookup("vic_integrity_key_size_from_str", n, vic_integrity_key_size_from_str(n))

NextRegistry ==
    \/ \E s \in SchemesInHand : NameCall(s)
    \/ \E s \in SchemesInHand : TagSizeCall(s)
    \/ \E s \in SchemesInHand : KeySizeCall(s)
    \/ \E n \in NamesInHand \ {NULL} : EnumCall(n)
    \/ \E n \in NamesInHand : TagSizeFromStrCall(n)
    \/ \E n \in NamesInHand : KeySizeFromStrCall(n)

SpecRegistry == InitRegistry /\ [][NextRegistry]_vars

----------------------------------------------------------------------------
(* Properties of the superblock reader and of the dump (under Spec). *)

\* The device reported a block size, and it is the sector size.
BlockSizeFits == dev.bsResult = "VIC_OK" /\ dev.blockSize = 512

\* The device reported a block size, and it is not the sector size.
BlockSizeDiffers == dev.bsResult = "VIC_OK" /\ dev.blockSize # 512

\* The index of the sector that holds the byte offset of the last call.
SectorIndex == last.offset \div 512

\* The device can read that sector.
SectorReadable == ~dev.ioError /\ SectorIndex < Len(dev.blocks)

\* The bytes of that sector.
Sector == BlockBytes(dev.blocks[SectorIndex + 1])

\* The lines the last call printed.
Printed == SubSeq(out, last.nout + 1, Len(out))

\* C1: after a read from a device whose block size is the sector size, whose
\* sector at index offset / sector size is readable and starts with the
\* magic, the result is OK and every field of the caller's structure holds
\* the bytes of the sector at the field's offset.
C1_ReadCopiesSector ==
    (last.op = "read" /\ BlockSizeFits /\ SectorReadable
        /\ SubSeq(Sector, 1, 8) = <<105, 110, 116, 101, 103, 114, 116, 0>>)
    => /\ result = "VIC_OK"
       /\ \A f \in FieldNames :
            Field(sbMem, f)
                = SubSeq(Sector, FieldDesc(f).off + 1,
                         FieldDesc(f).off + FieldDesc(f).width)

\* A read of the second sector succeeded and replaced what the caller held.
C1_Witness ==
    /\ last.op = "read" /\ BlockSizeFits /\ SectorReadable
    /\ SubSeq(Sector, 1, 8) = <<105, 110, 116, 101, 103, 114, 116, 0>>
    /\ last.offset = 1023
    /\ dev.blocks[2] # dev.blocks[1]
    /\ result = "VIC_OK"
    /\ sbMem # last.sbBefore
    /\ Field(sbMem, "log2_sectors_per_block") = <<255>>

\* C2 (as claimed): whenever the read returns anything but OK, the caller's
\* structure is as it was before the call.
C2_FailureLeavesSbUntouched ==
    (last.op = "read" /\ result # "VIC_OK") => sbMem = last.sbBefore

\* C3: after a read from a device that reports a block size other than the
\* sector size, the result is BadBlockSize and the device was asked for no
\* block during the call.
C3_BadBlockSizeWithoutRead ==
    (last.op = "read" /\ BlockSizeDiffers)
    => /\ result = "VIC_BAD_BLOCK_SIZE"
       /\ Len(reads) = last.nreads

\* A read from a device with 4096-byte blocks was refused.
C3_Witness ==
    /\ last.op = "read" /\ BlockSizeDiffers
    /\ dev.blockSize = 4096
    /\ result = "VIC_BAD_BLOCK_SIZE"
    /\ reads = <<>>

\* The positions at which the first 8 bytes of the sector differ from the magic.
AlteredPositions == {i \in 1..8 : Sector[i] # _magic[i]}

\* C4: after a read of a readable sector whose first 8 bytes differ from the
\* magic in exactly one position, the result is NotFound.
C4_AlteredMagicNotFound ==
    (last.op = "read" /\ BlockSizeFits /\ SectorReadable
        /\ Cardinality(AlteredPositions) = 1)
    => result = "VIC_NOT_FOUND"

\* A sector whose magic differs in its trailing NUL only was read.
C4_Witness ==
    /\ last.op = "read" /\ BlockSizeFits /\ SectorReadable
    /\ AlteredPositions = {8}
    /\ result = "VIC_NOT_FOUND"

\* C6 (as claimed): in a report the dump printed with result OK, every log2
\* field whose stored exponent v is below 64 is printed with the expanded
\* value 2^v (the 64-bit value whose only one-bit is bit v).
C6_ExpandedIsPowerOfTwo ==
    (last.op = "dump" /\ result = "VIC_OK")
    => \A i \in 1..Len(Printed) :
          (Printed[i].field \in Log2Fields /\ Printed[i].raw[1] < 64)
          => Printed[i].exp = <<{Printed[i].raw[1]}>>

\* The caller's structure carries the magic and a log2 field of 64 or more.
OutOfRangeExponent ==
    /\ SubSeq(sbMem, 1, 8) = _magic
    /\ \E f \in Log2Fields : Field(sbMem, f)[1] >= 64

\* C7 (as claimed): when the structure the read returned, or the dump was
\* given, carries the magic and a log2 field of 64 or more, the result is
\* not OK and no expanded value is printed for that field.
C7_OutOfRangeExponentRejected ==
    (last.op \in {"read", "dump"} /\ ~last.null /\ OutOfRangeExponent)
    => /\ result # "VIC_OK"
       /\ \A i \in 1..Len(Printed) :
            (Printed[i].field \in Log2Fields /\ Printed[i].raw[1] >= 64)
            => Printed[i].exp = <<>>

\* The dump was given NULL, or a structure that does not carry the magic.
DumpGivenInvalid == last.null \/ SubSeq(last.sbBefore, 1, 8) # _magic

\* C9: the dump returns BadParameter and prints nothing when it is given
\* NULL or a structure without the magic; it returns OK and prints the
\* report otherwise; and it leaves the structure as it was.
C9_DumpChecksMagic ==
    last.op = "dump"
    => /\ DumpGivenInvalid => (result = "VIC_BAD_PARAMETER" /\ Printed = <<>>)
       /\ ~DumpGivenInvalid => (result = "VIC_OK" /\ Len(Printed) = 13)
       /\ result \in {"VIC_OK", "VIC_BAD_PARAMETER"}
       /\ sbMem = last.sbBefore

\* The dump refused a structure, not NULL, that a read had filled from a
\* sector without the magic.
C9_Witness ==
    /\ last.op = "dump" /\ ~last.null
    /\ SubSeq(last.sbBefore, 1, 8) # _magic
    /\ reads # <<>>
    /\ Field(last.sbBefore, "magic")[1] = 105
    /\ result = "VIC_BAD_PARAMETER"
    /\ out = <<>>

----------------------------------------------------------------------------
(* Properties of the registry (under SpecRegistry). *)

\* The lookup f was called with arg.
Called(f, arg) == calls[f] # <<>> /\ calls[f][1].arg = arg

\* What the last call of f returned (f was called).
Ret(f) == calls[f][1].ret

C8_NameEnumRoundTrip ==
    /\ \A s \in Declared :
          Called("vic_integrity_name", s) => Ret("vic_integrity_name") # <<>>
    /\ \A s, t \in Declared :
          s # t => vic_integrity_name(s) # vic_integrity_name(t)
    /\ \A s \in Declared :
          (/\ Called("vic_integrity_name", s)
           /\ Called("vic_integrity_enum", Ret("vic_integrity_name")))
          => Ret("vic_integrity_enum") = s

\* The name of the scheme "none" was looked up, and then the scheme of that name.
C8_Witness ==
    /\ Called("vic_integrity_name", "VIC_INTEGRITY_NONE")
    /\ Ret("vic_integrity_name") = <<"none">>
    /\ Called("vic_integrity_enum", <<"none">>)
    /\ Ret("vic_integrity_enum") = "VIC_INTEGRITY_NONE"
    /\ client.scheme = "VIC_INTEGRITY_NONE"
    /\ client.name = <<>>

\* The name n was passed to the scheme lookup and to the name-keyed lookup
\* byName, and the scheme returned was passed to the scheme-keyed lookup
\* byScheme.
LookedUpBothWays(n, byName, byScheme) ==
    /\ Called("vic_integrity_enum", n)
    /\ Called(byName, n)
    /\ Called(byScheme, Ret("vic_integrity_enum"))

\* C10 (as claimed): for every non-null name, the name-keyed tag size and key
\* size equal the scheme-keyed ones of the scheme the name looks up to.
C10_LookupsAgree ==
    \A n \in NameArgs :
        /\ LookedUpBothWays(n, "vic_integrity_tag_size_from_str",
                            "vic_integrity_tag_size")
            => Ret("vic_integrity_tag_size_from_str") = Ret("vic_integrity_tag_size")
        /\ LookedUpBothWays(n, "vic_integrity_key_size_from_str",
                            "vic_integrity_key_size")
            => Ret("vic_integrity_key_size_from_str") = Ret("vic_integrity_key_size")

\* C10 (amended): the key sizes agree for every non-null name; the tag sizes
\* agree for the five names "aead", "hmac(sha256)", "hmac(sha512)",
\* "cmac(aes)" and "poly1305"; for any other name ("none" included) the
\* name-keyed tag size is (size_t)-1 and the scheme-keyed one is 0.
C10_LookupsAgreeExceptTagOfNone ==
    \A n \in NameArgs :
        /\ LookedUpBothWays(n, "vic_integrity_tag_size_from_str",
                            "vic_integrity_tag_size")
            => IF n[1] \in {"aead", "hmac(sha256)", "hmac(sha512)", "cmac(aes)",
                            "poly1305"}
               THEN Ret("vic_integrity_tag_size_from_str")
                        = Ret("vic_integrity_tag_size")
               ELSE /\ Ret("vic_integrity_tag_size_from_str") = -1
                    /\ Ret("vic_integrity_tag_size") = 0
        /\ LookedUpBothWays(n, "vic_integrity_key_size_from_str",
                            "vic_integrity_key_size")
            => Ret("vic_integrity_key_size_from_str") = Ret("vic_integrity_key_size")

\* "poly1305" was looked up both ways, for the tag size and for the key size.
C10_Witness ==
    /\ LookedUpBothWays(<<"poly1305">>, "vic_integrity_tag_size_from_str",
                        "vic_integrity_tag_size")
    /\ LookedUpBothWays(<<"poly1305">>, "vic_integrity_key_size_from_str",
                        "vic_integrity_key_size")
    /\ Ret("vic_integrity_tag_size") = 16
    /\ Ret("vic_integrity_key_size") = 0

====
